---------------------------- MODULE Spec2Model ----------------------------
(***************************************************************************)
(* Faculty-directory scraper: the page handler of src/main.js (one page    *)
(* session per request, sessions interleaved at every await) and the pure  *)
(* helpers of src/unnamed/part_000 (helpers.js).                           *)
(*                                                                         *)
(* A JavaScript string is modelled as a sequence of one-character strings, *)
(* so that includes, split, replace, trim and toLowerCase are computed.    *)
(* A confidence is modelled in hundredths (0.95 is 95).                    *)
(***************************************************************************)
EXTENDS Integers, Sequences, FiniteSets, TLC

(***************************************************************************)
(* JavaScript string primitives                                            *)
(***************************************************************************)
UpperLetters ==
  <<"A","B","C","D","E","F","G","H","I","J","K","L","M",
    "N","O","P","Q","R","S","T","U","V","W","X","Y","Z">>

LowerLetters ==
  <<"a","b","c","d","e","f","g","h","i","j","k","l","m",
    "n","o","p","q","r","s","t","u","v","w","x","y","z">>

\* the characters the regular expression class \s and trim() treat as blank
Whitespace == {" ", "\t", "\n"}

Digits == {"0","1","2","3","4","5","6","7","8","9"}

lowerChar(c) ==
  IF \E k \in 1..26 : UpperLetters[k] = c
    THEN LowerLetters[CHOOSE k \in 1..26 : UpperLetters[k] = c]
    ELSE c

\* String.prototype.toLowerCase
toLowerCase(s) == [k \in 1..Len(s) |-> lowerChar(s[k])]

\* s.slice(i - 1): the suffix of s starting at the 1-based position i
From(s, i) == IF i > Len(s) THEN <<>> ELSE SubSeq(s, i, Len(s))

\* the pattern p occurs in s at the 1-based position i
startsWithAt(s, p, i) ==
  /\ i >= 1
  /\ i + Len(p) - 1 <= Len(s)
  /\ \A k \in 1..Len(p) : s[i + k - 1] = p[k]

\* the same, ignoring case (a regular expression literal under the i flag)
startsWithAtCI(s, p, i) == startsWithAt(toLowerCase(s), toLowerCase(p), i)

\* String.prototype.indexOf, 1-based; 0 when p does not occur
indexOf(s, p) ==
  IF \E i \in 1..(Len(s) + 1) : startsWithAt(s, p, i)
    THEN CHOOSE i \in 1..(Len(s) + 1) :
           /\ startsWithAt(s, p, i)
           /\ \A j \in 1..(i - 1) : ~startsWithAt(s, p, j)
    ELSE 0

\* String.prototype.includes
includes(s, p) == indexOf(s, p) > 0

\* String.prototype.replace with a string pattern: the first occurrence only
replaceFirst(s, p, r) ==
  LET i == indexOf(s, p)
  IN  IF i = 0 THEN s
      ELSE SubSeq(s, 1, i - 1) \o r \o From(s, i + Len(p))

RECURSIVE trimStart(_)
trimStart(s) ==
  IF s # <<>> /\ Head(s) \in Whitespace THEN trimStart(Tail(s)) ELSE s

RECURSIVE trimEnd(_)
trimEnd(s) ==
  IF s # <<>> /\ s[Len(s)] \in Whitespace
    THEN trimEnd(SubSeq(s, 1, Len(s) - 1))
    ELSE s

\* String.prototype.trim
trim(s) == trimEnd(trimStart(s))

\* String.prototype.split with a one-character separator: every piece,
\* empty pieces included ("a  b".split(' ') is ["a", "", "b"])
RECURSIVE split(_, _)
split(s, sep) ==
  LET i == indexOf(s, <<sep>>)
  IN  IF i = 0 THEN <<s>>
      ELSE <<SubSeq(s, 1, i - 1)>> \o split(From(s, i + 1), sep)

\* s.replace(/\s+/g, ' ')
RECURSIVE collapseWhitespace(_)
collapseWhitespace(s) ==
  IF s = <<>> THEN <<>>
  ELSE IF Head(s) \in Whitespace
    THEN <<" ">> \o collapseWhitespace(trimStart(s))
    ELSE <<Head(s)>> \o collapseWhitespace(Tail(s))

\* the position after a run of blanks starting at i: \s* of a regular expression
RECURSIVE skipWhitespace(_, _)
skipWhitespace(s, i) ==
  IF i <= Len(s) /\ s[i] \in Whitespace THEN skipWhitespace(s, i + 1) ELSE i

\* the length of the first alternative (in order) matching at i, 0 when none
RECURSIVE firstAltLen(_, _, _)
firstAltLen(s, alts, i) ==
  IF alts = <<>> THEN 0
  ELSE IF startsWithAtCI(s, Head(alts), i) THEN Len(Head(alts))
  ELSE firstAltLen(s, Tail(alts), i)

(***************************************************************************)
(* Field cleaners (helpers.js)                                             *)
(***************************************************************************)
\* the alternatives of /Dr\.|Prof\.|Professor|Mr\.|Ms\.|Mrs\./gi, in order
Honorifics ==
  << <<"D","r",".">>, <<"P","r","o","f",".">>, <<"P","r","o","f","e","s","s","o","r">>,
     <<"M","r",".">>, <<"M","s",".">>, <<"M","r","s",".">> >>

\* the alternatives of the group (Jr|Sr|III|II), in order
SuffixWords == << <<"J","r">>, <<"S","r">>, <<"I","I","I">>, <<"I","I">> >>

\* name.replace(/Dr\.|Prof\.|Professor|Mr\.|Ms\.|Mrs\./gi, ''): a left-to-right
\* scan; the text after a removed match is scanned on, the result is not
RECURSIVE stripHonorifics(_, _)
stripHonorifics(s, i) ==
  IF i > Len(s) THEN <<>>
  ELSE LET n == firstAltLen(s, Honorifics, i)
       IN  IF n > 0 THEN stripHonorifics(s, i + n)
           ELSE <<s[i]>> \o stripHonorifics(s, i + 1)

\* the position after a match of /,\s*(Jr|Sr|III|II)\.?/i at i, 0 when none
suffixEnd(s, i) ==
  IF i > Len(s) \/ s[i] # "," THEN 0
  ELSE LET j == skipWhitespace(s, i + 1)
           n == firstAltLen(s, SuffixWords, j)
       IN  IF n = 0 THEN 0
           ELSE IF j + n <= Len(s) /\ s[j + n] = "." THEN j + n + 1
           ELSE j + n

\* name.replace(/,\s*(Jr|Sr|III|II)\.?/gi, '')
RECURSIVE stripSuffixes(_, _)
stripSuffixes(s, i) ==
  IF i > Len(s) THEN <<>>
  ELSE LET e == suffixEnd(s, i)
       IN  IF e > 0 THEN stripSuffixes(s, e)
           ELSE <<s[i]>> \o stripSuffixes(s, i + 1)

\* cleanName without the removal of honorifics
cleanNameKeepHonorifics(name) ==
  IF name = <<>> THEN <<>>
  ELSE trim(collapseWhitespace(stripSuffixes(name, 1)))

cleanName(name) ==
  IF name = <<>> THEN <<>>
  ELSE trim(collapseWhitespace(stripSuffixes(stripHonorifics(name, 1), 1)))

\* the character class of the leading marker of a title, as the source file
\* spells it: a hyphen and the three characters U+00E2, U+20AC, U+00A2
TitleMarkers == {"-", "U+00E2", "U+20AC", "U+00A2"}

\* title.replace(/^\s*[-...]\s*/, '')
stripLeadingMarker(s) ==
  LET j == skipWhitespace(s, 1)
  IN  IF j <= Len(s) /\ s[j] \in TitleMarkers
        THEN From(s, skipWhitespace(s, j + 1))
        ELSE s

cleanTitle(title) ==
  IF title = <<>> THEN <<>>
  ELSE trim(collapseWhitespace(stripLeadingMarker(title)))

cleanEmail(email) ==
  IF email = <<>> \/ ~includes(email, <<"@">>) THEN <<>>
  ELSE trim(toLowerCase(email))

\* the alternatives of the group (Phone|Tel|Office), in order
PhoneLabels == << <<"P","h","o","n","e">>, <<"T","e","l">>, <<"O","f","f","i","c","e">> >>

\* phone.replace(/^(Phone|Tel|Office):\s*/i, '')
stripPhoneLabel(s) ==
  LET n == firstAltLen(s, PhoneLabels, 1)
  IN  IF n > 0 /\ n + 1 <= Len(s) /\ s[n + 1] = ":"
        THEN From(s, skipWhitespace(s, n + 2))
        ELSE s

\* the characters /[^\d\-\(\)\.\s\+]/g leaves in place
PhoneChars == Digits \cup Whitespace \cup {"-", "(", ")", ".", "+"}

isPhoneChar(c) == c \in PhoneChars

cleanPhone(phone) ==
  IF phone = <<>> THEN <<>>
  ELSE trim(SelectSeq(stripPhoneLabel(phone), isPhoneChar))

(***************************************************************************)
(* Confidence scorer (helpers.js)                                          *)
(***************************************************************************)
isUsablePart(part) == Len(part) > 1

\* calculateEmailConfidence with the substring checks made before the
\* exact patterns
calculateEmailConfidenceLooseFirst(name, email) ==
  IF name = <<>> \/ email = <<>> \/ Len(email) < 5 THEN 10
  ELSE
    LET nameParts == SelectSeq(split(toLowerCase(name), " "), isUsablePart)
    IN  IF Len(nameParts) < 2 THEN 30
        ELSE
          LET firstName  == nameParts[1]
              lastName   == nameParts[Len(nameParts)]
              emailLocal == toLowerCase(split(email, "@")[1])
          IN  IF includes(emailLocal, firstName)
                 /\ includes(emailLocal, lastName) THEN 75
              ELSE IF includes(emailLocal, firstName) THEN 60
              ELSE IF includes(emailLocal, lastName) THEN 50
              ELSE IF emailLocal = firstName \o <<".">> \o lastName THEN 95
              ELSE IF emailLocal = firstName \o <<".", lastName[1]>> THEN 85
              ELSE IF emailLocal = <<firstName[1], ".">> \o lastName THEN 85
              ELSE 10

\* calculateEmailConfidence with the name tokenised before the check of
\* missing and short inputs
calculateEmailConfidenceTokensFirst(name, email) ==
  LET nameParts == SelectSeq(split(toLowerCase(name), " "), isUsablePart)
  IN  IF Len(nameParts) < 2 THEN 30
      ELSE IF name = <<>> \/ email = <<>> \/ Len(email) < 5 THEN 10
      ELSE
        LET firstName  == nameParts[1]
            lastName   == nameParts[Len(nameParts)]
            emailLocal == toLowerCase(split(email, "@")[1])
        IN  IF emailLocal = firstName \o <<".">> \o lastName THEN 95
            ELSE IF emailLocal = firstName \o <<".", lastName[1]>> THEN 85
            ELSE IF emailLocal = <<firstName[1], ".">> \o lastName THEN 85
            ELSE IF includes(emailLocal, firstName)
                    /\ includes(emailLocal, lastName) THEN 75
            ELSE IF includes(emailLocal, firstName) THEN 60
            ELSE IF includes(emailLocal, lastName) THEN 50
            ELSE 10

calculateEmailConfidence(name, email) ==
  IF name = <<>> \/ email = <<>> \/ Len(email) < 5 THEN 10
  ELSE
    LET nameParts == SelectSeq(split(toLowerCase(name), " "), isUsablePart)
    IN  IF Len(nameParts) < 2 THEN 30
        ELSE
          LET firstName  == nameParts[1]
              lastName   == nameParts[Len(nameParts)]
              emailLocal == toLowerCase(split(email, "@")[1])
          IN  IF emailLocal = firstName \o <<".">> \o lastName THEN 95
              ELSE IF emailLocal = firstName \o <<".", lastName[1]>> THEN 85
              ELSE IF emailLocal = <<firstName[1], ".">> \o lastName THEN 85
              ELSE IF includes(emailLocal, firstName)
                      /\ includes(emailLocal, lastName) THEN 75
              ELSE IF includes(emailLocal, firstName) THEN 60
              ELSE IF includes(emailLocal, lastName) THEN 50
              ELSE 10

(***************************************************************************)
(* Profile link resolver (helpers.js)                                      *)
(***************************************************************************)
\* the callback of the first profileLinks.find: a match on the link text
textMatch(name, link) ==
  \/ includes(toLowerCase(link.text), toLowerCase(name))
  \/ includes(toLowerCase(name), toLowerCase(link.text))

\* the callback of the second profileLinks.find: a match on the link URL
urlMatchOf(name, link) ==
  LET nameParts == split(toLowerCase(name), " ")
      firstName == nameParts[1]
      lastName  == nameParts[Len(nameParts)]
      url       == toLowerCase(link.href)
  IN  \/ includes(url, firstName) /\ includes(url, lastName)
      \/ includes(url, firstName \o <<"-">> \o lastName)
      \/ includes(url, lastName \o <<"-">> \o firstName)

\* Array.prototype.find as an index: the first position whose entry is in
\* hits, 0 when there is none
firstIndexIn(hits) ==
  IF hits = {} THEN 0 ELSE CHOOSE i \in hits : \A j \in hits : i <= j

\* findProfileLink with the URL match tried before the text match
findProfileLinkUrlFirst(name, profileLinks) ==
  IF name = <<>> \/ Len(profileLinks) = 0 THEN <<>>
  ELSE
    LET exactMatch ==
          firstIndexIn({i \in 1..Len(profileLinks) : textMatch(name, profileLinks[i])})
        urlMatch ==
          firstIndexIn({i \in 1..Len(profileLinks) : urlMatchOf(name, profileLinks[i])})
    IN  IF urlMatch > 0 THEN profileLinks[urlMatch].href
        ELSE IF exactMatch > 0 THEN profileLinks[exactMatch].href
        ELSE <<>>

findProfileLink(name, profileLinks) ==
  IF name = <<>> \/ Len(profileLinks) = 0 THEN <<>>
  ELSE
    LET exactMatch ==
          firstIndexIn({i \in 1..Len(profileLinks) : textMatch(name, profileLinks[i])})
        urlMatch ==
          firstIndexIn({i \in 1..Len(profileLinks) : urlMatchOf(name, profileLinks[i])})
    IN  IF exactMatch > 0 THEN profileLinks[exactMatch].href
        ELSE IF urlMatch > 0 THEN profileLinks[urlMatch].href
        ELSE <<>>

(***************************************************************************)
(* Context extractors (helpers.js)                                         *)
(***************************************************************************)
sKansas     == <<"k","a","n","s","a","s">>
sIllinois   == <<"i","l","l","i","n","o","i","s">>
sUtah       == <<"u","t","a","h">>
sUnf        == <<"u","n","f">>
sUniversity == <<"U","n","i","v","e","r","s","i","t","y">>

\* pageTitle.match(/(.*?University[^|]*)/)[1] when pageTitle includes
\* 'University': the match starts after the last line break before the
\* first 'University' (. matches no line break) and runs up to the next '|'
RECURSIVE lastBreakBefore(_, _)
lastBreakBefore(s, k) ==
  IF k < 1 THEN 0 ELSE IF s[k] = "\n" THEN k ELSE lastBreakBefore(s, k - 1)

RECURSIVE untilPipe(_, _)
untilPipe(s, k) ==
  IF k > Len(s) \/ s[k] = "|" THEN k - 1 ELSE untilPipe(s, k + 1)

universityMatch(pageTitle) ==
  LET k == indexOf(pageTitle, sUniversity)
  IN  SubSeq(pageTitle, lastBreakBefore(pageTitle, k - 1) + 1,
             untilPipe(pageTitle, k + Len(sUniversity)))

\* domain.replace(/^www\./, '')
stripWww(domain) ==
  IF startsWithAt(domain, <<"w","w","w",".">>, 1) THEN From(domain, 5) ELSE domain

\* url is an already parsed URL: new URL(url).hostname is its hostname field
getUniversityName(url, pageTitle) ==
  LET domain == toLowerCase(url.hostname)
  IN  IF includes(domain, sKansas) THEN <<"U","n","i","v","e","r","s","i","t","y"," ","o","f"," ","K","a","n","s","a","s">>
      ELSE IF includes(domain, sIllinois) THEN <<"U","n","i","v","e","r","s","i","t","y"," ","o","f"," ","I","l","l","i","n","o","i","s">>
      ELSE IF includes(domain, sUtah) THEN <<"U","n","i","v","e","r","s","i","t","y"," ","o","f"," ","U","t","a","h">>
      ELSE IF includes(domain, sUnf) THEN <<"U","n","i","v","e","r","s","i","t","y"," ","o","f"," ","N","o","r","t","h"," ","F","l","o","r","i","d","a">>
      ELSE IF includes(pageTitle, sUniversity) THEN trim(universityMatch(pageTitle))
      ELSE replaceFirst(stripWww(domain), <<".","e","d","u">>, <<>>)

sMusicDepartment == <<"M","u","s","i","c"," ","D","e","p","a","r","t","m","e","n","t">>

musicKeywords ==
  << <<"S","c","h","o","o","l"," ","o","f"," ","M","u","s","i","c">>,
     <<"C","o","l","l","e","g","e"," ","o","f"," ","M","u","s","i","c">>,
     <<"D","e","p","a","r","t","m","e","n","t"," ","o","f"," ","M","u","s","i","c">>,
     sMusicDepartment,
     <<"S","c","h","o","o","l"," ","o","f"," ","F","i","n","e"," ","A","r","t","s">>,
     <<"C","o","l","l","e","g","e"," ","o","f"," ","F","i","n","e"," ","A","r","t","s">> >>

getDepartmentName(pageContent) ==
  LET hits == {k \in 1..Len(musicKeywords) : includes(pageContent, musicKeywords[k])}
  IN  IF hits = {} THEN sMusicDepartment ELSE musicKeywords[firstIndexIn(hits)]

(***************************************************************************)
(* The loaded page, as the DOM queries of main.js see it.                  *)
(*                                                                         *)
(* An element that a querySelector may or may not find is a sequence of    *)
(* length 0 (null) or 1.  An element is [text, href, title, a]: its        *)
(* textContent, and for an anchor (a = TRUE) its href and title; the href  *)
(* of an element that is no anchor is undefined, modelled as <<>> with     *)
(* a = FALSE.  A document is a record                                      *)
(*   url         the parsed URL of the page (hostname, path)               *)
(*   docTitle    document.title                                            *)
(*   uniTexts    textContent of the first match of each selector of        *)
(*               getUniversityName that matches, in selector order         *)
(*   deptTexts   the same for the selectors of getDepartmentName           *)
(*   viewsRows   the .views-row elements                                   *)
(*   cards       the elements matching one of the card selectors           *)
(*   rows        the tr, .faculty-row, .person-row and .table-row elements *)
(*   loose       the anchors outside rows and cards                        *)
(*   loginForm   the login form's three fields are all present             *)
(* all in document order within each list.                                 *)
(***************************************************************************)
NoElement == <<>>

\* element?.textContent.trim() || ''
textOf(el) == IF el = NoElement THEN <<>> ELSE trim(el[1].text)

\* element?.href || ''
hrefOf(el) == IF el = NoElement THEN <<>> ELSE el[1].href

sMailto == <<"m","a","i","l","t","o",":">>

\* emailElement?.href.replace('mailto:', '') || ''
mailtoAddress(el) ==
  IF el = NoElement THEN <<>> ELSE replaceFirst(el[1].href, sMailto, <<>>)

\* the first anchor of a list matched by a[href^="mailto:"]
firstMailto(anchors) ==
  LET hits == {i \in 1..Len(anchors) : startsWithAt(anchors[i].href, sMailto, 1)}
  IN  IF hits = {} THEN NoElement ELSE <<anchors[firstIndexIn(hits)]>>

RECURSIVE flatten(_)
flatten(seqs) == IF seqs = <<>> THEN <<>> ELSE Head(seqs) \o flatten(Tail(seqs))

isAnchor(el) == el.a

\* the anchors of a .views-row, of a card, of a row, in document order
viewsRowAnchors(row) == row.name \o row.mailto

cardAnchors(card) ==
  SelectSeq(flatten(card.names), isAnchor) \o card.fallback \o card.mailto
    \o SelectSeq(card.phone, isAnchor)

rowAnchors(row) == flatten([k \in 1..Len(row.cells) |-> row.cells[k].link])

\* every a element of the document
allAnchors(doc) ==
  flatten([k \in 1..Len(doc.viewsRows) |-> viewsRowAnchors(doc.viewsRows[k])])
    \o flatten([k \in 1..Len(doc.cards) |-> cardAnchors(doc.cards[k])])
    \o flatten([k \in 1..Len(doc.rows) |-> rowAnchors(doc.rows[k])])
    \o doc.loose

(***************************************************************************)
(* PlaywrightFacultyExtractor: the page queries                            *)
(***************************************************************************)
\* a[href*="/people/"], a[href*="/faculty/"], a[href*="/staff/"],
\* a[href*="profile"], a[href*="bio"]
profileSelector(anchor) ==
  \/ includes(anchor.href, <<"/","p","e","o","p","l","e","/">>)
  \/ includes(anchor.href, <<"/","f","a","c","u","l","t","y","/">>)
  \/ includes(anchor.href, <<"/","s","t","a","f","f","/">>)
  \/ includes(anchor.href, <<"p","r","o","f","i","l","e">>)
  \/ includes(anchor.href, <<"b","i","o">>)

\* links.filter(link => link.text && link.text.length > 3)
keepLink(link) == link.text # <<>> /\ Len(link.text) > 3

toLinkEntry(anchor) ==
  [href |-> anchor.href, text |-> trim(anchor.text), title |-> anchor.title]

extractAllProfileLinks(doc) ==
  LET matched == SelectSeq(allAnchors(doc), profileSelector)
      links   == [k \in 1..Len(matched) |-> toLinkEntry(matched[k])]
  IN  SelectSeq(links, keepLink)

\* the page.evaluate of getUniversityName, then the helper
hasUniversity(text) == includes(text, sUniversity)

pageUniversityName(url, doc) ==
  LET hits == SelectSeq(doc.uniTexts, hasUniversity)
      universityName == IF hits = <<>> THEN doc.docTitle ELSE trim(hits[1])
  IN  getUniversityName(url, universityName)

\* the page.evaluate of getDepartmentName, then the helper
hasArts(text) ==
  \/ includes(text, <<"M","u","s","i","c">>)
  \/ includes(text, <<"A","r","t","s">>)
  \/ includes(text, <<"F","i","n","e"," ","A","r","t","s">>)

pageDepartmentName(doc) ==
  LET hits == SelectSeq(doc.deptTexts, hasArts)
      departmentName == IF hits = <<>> THEN <<>> ELSE trim(hits[1])
  IN  getDepartmentName(departmentName)

\* a raw candidate
Candidate(name, title, email, phone, profileLink) ==
  [name |-> name, title |-> title, email |-> email, phone |-> phone,
   profileLink |-> profileLink]

hasName(person) == person.name # <<>>

\* Method 1: the rows.map callback and the filter of extractKansasStyle
kansasCandidate(row) ==
  Candidate(textOf(row.name), textOf(row.title), mailtoAddress(row.mailto),
            textOf(row.phone), hrefOf(row.name))

kansasCandidates(doc) ==
  SelectSeq([k \in 1..Len(doc.viewsRows) |-> kansasCandidate(doc.viewsRows[k])],
            hasName)

\* Method 2: the card selector of extractIllinoisStyle,
\* div[class*="person"], .person-card, .faculty-card, .staff-card
\* (a card's kind names the part of the selector list that matches it)
CardKinds == {"div-person", "person-card", "faculty-card", "staff-card"}

\* the nameSelectors loop: card.names[k] is the first match of the k-th
\* selector; the loop stops at the first element with text, and otherwise
\* leaves the match of the last selector
illinoisNameElement(card) ==
  LET hits == {k \in 1..Len(card.names) : textOf(card.names[k]) # <<>>}
  IN  IF hits = {} THEN card.names[Len(card.names)]
      ELSE card.names[firstIndexIn(hits)]

\* the titleSelectors loops: card.titles are the texts of the candidate
\* elements, by selector and then in document order
isRoleText(text) ==
  /\ trim(text) # <<>>
  /\ \/ includes(trim(text), <<"P","r","o","f","e","s","s","o","r">>)
     \/ includes(trim(text), <<"I","n","s","t","r","u","c","t","o","r">>)
     \/ includes(trim(text), <<"D","i","r","e","c","t","o","r">>)
     \/ includes(trim(text), <<"L","e","c","t","u","r","e","r">>)

illinoisTitle(card) ==
  LET hits == SelectSeq(card.titles, isRoleText)
  IN  IF hits = <<>> THEN <<>> ELSE trim(hits[1])

\* phoneElement?.textContent.trim() || phoneElement?.href.replace('tel:', '') || ''
\* reads .replace of undefined, a TypeError, when the element has no text
\* and is no anchor
illinoisPhoneThrows(card) ==
  /\ card.phone # NoElement
  /\ textOf(card.phone) = <<>>
  /\ ~card.phone[1].a

illinoisPhone(card) ==
  IF card.phone = NoElement THEN <<>>
  ELSE IF textOf(card.phone) # <<>> THEN textOf(card.phone)
  ELSE replaceFirst(card.phone[1].href, <<"t","e","l",":">>, <<>>)

illinoisProfile(card) ==
  IF hrefOf(illinoisNameElement(card)) # <<>> THEN hrefOf(illinoisNameElement(card))
  ELSE hrefOf(card.fallback)

illinoisCandidate(card) ==
  Candidate(textOf(illinoisNameElement(card)), illinoisTitle(card),
            mailtoAddress(card.mailto), illinoisPhone(card), illinoisProfile(card))

illinoisKeep(person) ==
  /\ person.name # <<>>
  /\ ~includes(person.name, <<"P","r","o","f","e","s","s","o","r"," ","o","f">>)
  /\ ~includes(person.name, <<"D","i","r","e","c","t","o","r"," ","o","f">>)

illinoisThrows(doc) == \E k \in 1..Len(doc.cards) : illinoisPhoneThrows(doc.cards[k])

illinoisCandidates(doc) ==
  SelectSeq([k \in 1..Len(doc.cards) |-> illinoisCandidate(doc.cards[k])],
            illinoisKeep)

\* a row's kind names how the row selectors match it: "table-tr" is a tr
\* inside a table, "tr" a tr outside any table; a cell's sel is "td",
\* "cell" or "field"
RowKinds == {"table-tr", "tr", "faculty-row", "person-row", "table-row"}

\* Method 3: document.querySelectorAll('tr, .faculty-row, .person-row')
isUtahRow(row) == row.kind \in {"table-tr", "tr", "faculty-row", "person-row"}

\* row.querySelectorAll('td, .cell, .field')
isUtahCell(cell) == cell.sel \in {"td", "cell", "field"}

\* a[href*=".php"], a[href*="/people/"], a[href*="/faculty/"],
\* td:first-child a, .name a: the first anchor of the row, in document
\* order, that one of them matches
utahNameElement(row) ==
  LET hits == {k \in 1..Len(row.cells) :
                 /\ row.cells[k].link # NoElement
                 /\ \/ includes(row.cells[k].link[1].href, <<".","p","h","p">>)
                    \/ includes(row.cells[k].link[1].href, <<"/","p","e","o","p","l","e","/">>)
                    \/ includes(row.cells[k].link[1].href, <<"/","f","a","c","u","l","t","y","/">>)
                    \/ (k = 1 /\ row.cells[k].sel = "td")
                    \/ row.cells[k].nameClass}
  IN  IF hits = {} THEN NoElement ELSE row.cells[firstIndexIn(hits)].link

utahCandidate(row) ==
  LET cells == SelectSeq(row.cells, isUtahCell)
      many  == Len(cells) > 1
  IN  Candidate(textOf(utahNameElement(row)),
                IF many THEN trim(cells[2].text) ELSE <<>>,
                IF many THEN mailtoAddress(firstMailto(rowAnchors(row))) ELSE <<>>,
                IF many /\ Len(cells) > 2 THEN trim(cells[3].text) ELSE <<>>,
                hrefOf(utahNameElement(row)))

utahCandidates(doc) ==
  LET rows == SelectSeq(doc.rows, isUtahRow)
  IN  SelectSeq([k \in 1..Len(rows) |-> utahCandidate(rows[k])], hasName)

\* Method 4: page.$$eval('table tr, .table-row', ...)
isTabularRow(row) == row.kind \in {"table-tr", "table-row"}

\* row.querySelectorAll('td, .cell')
isTabularCell(cell) == cell.sel \in {"td", "cell"}

\* tabularCandidate with the cell count tested against 1 in place of 2
tabularCandidateOneCell(row) ==
  LET cells == SelectSeq(row.cells, isTabularCell)
  IN  IF Len(cells) < 1 THEN <<>>
      ELSE
        LET nameCell == cells[1]
        IN  << Candidate(IF nameCell.link # NoElement THEN textOf(nameCell.link)
                           ELSE trim(nameCell.text),
                         IF Len(cells) > 1 THEN trim(cells[2].text) ELSE <<>>,
                         mailtoAddress(firstMailto(rowAnchors(row))),
                         IF Len(cells) > 2 THEN trim(cells[3].text) ELSE <<>>,
                         hrefOf(nameCell.link)) >>

\* the rows.map callback of extractTabularStyle: a sequence holding the
\* candidate, empty where the callback returns null
tabularCandidate(row) ==
  LET cells == SelectSeq(row.cells, isTabularCell)
  IN  IF Len(cells) < 2 THEN <<>>
      ELSE
        LET nameCell == cells[1]
        IN  << Candidate(IF nameCell.link # NoElement THEN textOf(nameCell.link)
                           ELSE trim(nameCell.text),
                         trim(cells[2].text),
                         mailtoAddress(firstMailto(rowAnchors(row))),
                         IF Len(cells) > 2 THEN trim(cells[3].text) ELSE <<>>,
                         hrefOf(nameCell.link)) >>

tabularCandidates(doc) ==
  LET rows == SelectSeq(doc.rows, isTabularRow)
  IN  SelectSeq(flatten([k \in 1..Len(rows) |-> tabularCandidate(rows[k])]), hasName)

(***************************************************************************)
(* Record processor                                                        *)
(***************************************************************************)
\* emailSourceOf with >= in place of >
emailSourceAtLeastHalf(emailConfidence) ==
  IF emailConfidence >= 50 THEN "name-matched" ELSE "generic"

\* emailConfidence > 0.5 ? 'name-matched' : 'generic'
emailSourceOf(emailConfidence) ==
  IF emailConfidence > 50 THEN "name-matched" ELSE "generic"

\* the rawFaculty.map callback of processFacultyData; this is the extractor
\* object (universityName, departmentName, profileLinks), url is page.url().
\* scrapedAt, the wall-clock time of the call, is left out.
processPerson(person, method, this, url) ==
  LET cleanedName     == cleanName(person.name)
      cleanedEmail    == cleanEmail(person.email)
      profileLink     == IF person.profileLink = <<>> /\ cleanedName # <<>>
                           THEN findProfileLink(cleanedName, this.profileLinks)
                           ELSE person.profileLink
      emailConfidence == calculateEmailConfidence(cleanedName, cleanedEmail)
  IN  [name             |-> cleanedName,
       titles           |-> IF person.title # <<>> THEN <<cleanTitle(person.title)>>
                            ELSE <<>>,
       profileLink      |-> profileLink,
       email            |-> cleanedEmail,
       emailConfidence  |-> emailConfidence,
       emailSource      |-> emailSourceOf(emailConfidence),
       phone            |-> cleanPhone(person.phone),
       university       |-> this.universityName,
       department       |-> this.departmentName,
       extractionMethod |-> method,
       sourceUrl        |-> url]

\* keepRecord with >= in place of >
keepRecordAtLeastTwo(person) == person.name # <<>> /\ Len(person.name) >= 2

\* .filter(person => person.name && person.name.length > 2)
keepRecord(person) == person.name # <<>> /\ Len(person.name) > 2

\* the array rawFaculty.map returns, before the filter
mapFacultyData(rawFaculty, method, this, url) ==
  [k \in 1..Len(rawFaculty) |-> processPerson(rawFaculty[k], method, this, url)]

processFacultyData(rawFaculty, method, this, url) ==
  SelectSeq(mapFacultyData(rawFaculty, method, this, url), keepRecord)

(***************************************************************************)
(* Dialect detector and dispatch                                           *)
(***************************************************************************)
\* page.$('.views-row') !== null
hasKansasStyle(doc) == doc.viewsRows # <<>>

\* page.$('div[class*="person"], .person-card, .faculty-card') !== null
hasIllinoisStyle(doc) ==
  \E k \in 1..Len(doc.cards) :
     doc.cards[k].kind \in {"div-person", "person-card", "faculty-card"}

\* page.$('a[href*=".php"], table tr') !== null
hasUtahStyle(doc) ==
  \/ \E k \in 1..Len(allAnchors(doc)) : includes(allAnchors(doc)[k].href, <<".","p","h","p">>)
  \/ \E k \in 1..Len(doc.rows) : doc.rows[k].kind = "table-tr"

\* detectDialect with the Illinois check made before the Kansas check
detectDialectIllinoisFirst(doc) ==
  IF hasIllinoisStyle(doc) THEN "illinois"
  ELSE IF hasKansasStyle(doc) THEN "kansas"
  ELSE IF hasUtahStyle(doc) THEN "utah"
  ELSE "tabular"

\* the dialect detectAndExtract runs
detectDialect(doc) ==
  IF hasKansasStyle(doc) THEN "kansas"
  ELSE IF hasIllinoisStyle(doc) THEN "illinois"
  ELSE IF hasUtahStyle(doc) THEN "utah"
  ELSE "tabular"

\* the raw candidates of a dialect's page query
candidatesOf(dialect, doc) ==
  CASE dialect = "kansas"   -> kansasCandidates(doc)
    [] dialect = "illinois" -> illinoisCandidates(doc)
    [] dialect = "utah"     -> utahCandidates(doc)
    [] dialect = "tabular"  -> tabularCandidates(doc)

\* the page query of a dialect rejects (an error thrown inside page.evaluate)
queryThrows(dialect, doc) == dialect = "illinois" /\ illinoisThrows(doc)

\* the own properties of the methodMap object literal
methodMapKeys == {"kansas", "illinois", "utah", "tabular"}

\* properties methodMap inherits from Object.prototype: functions, but for
\* __proto__, which is the prototype object itself
inheritedFunctions ==
  {"constructor", "hasOwnProperty", "isPrototypeOf", "propertyIsEnumerable",
   "toLocaleString", "toString", "valueOf"}

inheritedObjects == {"__proto__"}

\* what the handler does with the extractionMethod option:
\*   "detect"  detectAndExtract()
\*   "named"   methodMap[extractionMethod](), an extractor
\*   "call"    methodMap[extractionMethod](), a function of Object.prototype
\*   "type-error"  methodMap[extractionMethod] is truthy and no function
dispatch(method) ==
  IF method = "auto" THEN "detect"
  ELSE IF method \in methodMapKeys THEN "named"
  ELSE IF method \in inheritedFunctions THEN "call"
  ELSE IF method \in inheritedObjects THEN "type-error"
  ELSE "detect"

(***************************************************************************)
(* The crawl: one requestHandler session per request, interleaved at the   *)
(* awaits.                                                                 *)
(*   extractionMethod  the extractionMethod input option                   *)
(*   authEnabled       enableAuth && authCredentials.username && .password *)
(*   site[r]           what request r loads: [doc, afterLogin], the        *)
(*                     document at loadedUrl and the document the page     *)
(*                     shows once the login form has been submitted        *)
(*   page[r]           the document request r's page shows now             *)
(*   pc[r]             where request r's handler stands                    *)
(*   extractors[e]     the fields of extractor object e                    *)
(*   dialect[r]        the dialect whose extractor the handler ran         *)
(*   detected[r]       detectAndExtract was called                         *)
(*   raw[r]            the raw candidates of the page query                *)
(*   mapped[r]         the records rawFaculty.map built, before the filter *)
(*   faculty[r]        the handler's faculty variable                      *)
(*   failed[r]         the catch block ran                                 *)
(*   dataset           the batches pushed, each tagged with its request    *)
(***************************************************************************)
VARIABLES extractionMethod, authEnabled, site, page, pc, extractors, dialect,
          detected, raw, mapped, faculty, failed, dataset

vars == <<extractionMethod, authEnabled, site, page, pc, extractors, dialect,
          detected, raw, mapped, faculty, failed, dataset>>

Requests == DOMAIN site

\* new PlaywrightFacultyExtractor(page): the fields the constructor sets
newExtractor == [universityName |-> <<>>, departmentName |-> <<>>, profileLinks |-> <<>>]

\* one extractor object shared by every handler
extractorShared(r) == 1

\* the extractor object a handler works on: its own, created in the handler
extractorOf(r) == r

\* initialize: await this.page.waitForLoadState('networkidle')
waitForLoadState(r) ==
  /\ pc[r] = "start"
  /\ extractors' = [extractors EXCEPT ![extractorOf(r)] = newExtractor]
  /\ pc' = [pc EXCEPT ![r] = "loaded"]
  /\ UNCHANGED <<extractionMethod, authEnabled, site, page, dialect, detected,
                 raw, mapped, faculty, failed, dataset>>

\* initialize: this.universityName = await this.getUniversityName(url)
initUniversityName(r) ==
  /\ pc[r] = "loaded"
  /\ extractors' = [extractors EXCEPT ![extractorOf(r)].universityName =
                      pageUniversityName(site[r].doc.url, page[r])]
  /\ pc' = [pc EXCEPT ![r] = "university"]
  /\ UNCHANGED <<extractionMethod, authEnabled, site, page, dialect, detected,
                 raw, mapped, faculty, failed, dataset>>

\* initialize: this.departmentName = await this.getDepartmentName()
initDepartmentName(r) ==
  /\ pc[r] = "university"
  /\ extractors' = [extractors EXCEPT ![extractorOf(r)].departmentName =
                      pageDepartmentName(page[r])]
  /\ pc' = [pc EXCEPT ![r] = "department"]
  /\ UNCHANGED <<extractionMethod, authEnabled, site, page, dialect, detected,
                 raw, mapped, faculty, failed, dataset>>

\* initialize: this.profileLinks = await this.extractAllProfileLinks()
initProfileLinks(r) ==
  /\ pc[r] = "department"
  /\ extractors' = [extractors EXCEPT ![extractorOf(r)].profileLinks =
                      extractAllProfileLinks(page[r])]
  /\ pc' = [pc EXCEPT ![r] = "initialized"]
  /\ UNCHANGED <<extractionMethod, authEnabled, site, page, dialect, detected,
                 raw, mapped, faculty, failed, dataset>>

\* handleAuthentication: with the three fields found, fill, click and wait
\* for the page the login leads to; otherwise only a warning
handleAuthentication(r) ==
  /\ pc[r] = "initialized"
  /\ authEnabled
  /\ page' = [page EXCEPT ![r] = IF page[r].loginForm THEN site[r].afterLogin
                                 ELSE page[r]]
  /\ pc' = [pc EXCEPT ![r] = "authenticated"]
  /\ UNCHANGED <<extractionMethod, authEnabled, site, extractors, dialect,
                 detected, raw, mapped, faculty, failed, dataset>>

\* the handler has reached "Extract faculty data based on method"
atExtraction(r) ==
  \/ pc[r] = "initialized" /\ ~authEnabled
  \/ pc[r] = "authenticated"

\* the extractor's page query and processFacultyData, for the dialect d; a
\* query that rejects is caught by the handler
runExtractor(r, d) ==
  LET throws == queryThrows(d, page[r])
      found  == candidatesOf(d, page[r])
      this   == extractors[extractorOf(r)]
  IN  /\ dialect' = [dialect EXCEPT ![r] = d]
      /\ pc' = [pc EXCEPT ![r] = IF throws THEN "done" ELSE "extracted"]
      /\ failed' = [failed EXCEPT ![r] = IF throws THEN TRUE ELSE @]
      /\ raw' = [raw EXCEPT ![r] = IF throws THEN @ ELSE found]
      /\ mapped' = [mapped EXCEPT ![r] =
                      IF throws THEN @
                      ELSE mapFacultyData(found, d, this, page[r].url)]
      /\ faculty' = [faculty EXCEPT ![r] =
                       IF throws THEN @
                       ELSE processFacultyData(found, d, this, page[r].url)]

\* faculty = await extractor.detectAndExtract()
detectAndExtract(r) ==
  /\ atExtraction(r)
  /\ dispatch(extractionMethod) = "detect"
  /\ detected' = [detected EXCEPT ![r] = TRUE]
  /\ runExtractor(r, detectDialect(page[r]))
  /\ UNCHANGED <<extractionMethod, authEnabled, site, page, extractors, dataset>>

\* faculty = await methodMap[extractionMethod](), an extractor
extractNamed(r) ==
  /\ atExtraction(r)
  /\ dispatch(extractionMethod) = "named"
  /\ runExtractor(r, extractionMethod)
  /\ UNCHANGED <<extractionMethod, authEnabled, site, page, extractors, detected,
                 dataset>>

\* faculty = await methodMap[extractionMethod](), a function inherited from
\* Object.prototype: what it returns is no array of records. toString and
\* toLocaleString return a string, '[object Object]', whose length is above
\* 0 and which pushData rejects; the others return a value without length
callInherited(r) ==
  /\ atExtraction(r)
  /\ dispatch(extractionMethod) = "call"
  /\ IF extractionMethod \in {"toString", "toLocaleString"}
       THEN /\ pc' = [pc EXCEPT ![r] = "done"]
            /\ failed' = [failed EXCEPT ![r] = TRUE]
       ELSE /\ pc' = [pc EXCEPT ![r] = "done"]
            /\ UNCHANGED failed
  /\ UNCHANGED <<extractionMethod, authEnabled, site, page, extractors, dialect,
                 detected, raw, mapped, faculty, dataset>>

\* methodMap[extractionMethod]() where the property is no function: a
\* TypeError, caught by the handler
callNonFunction(r) ==
  /\ atExtraction(r)
  /\ dispatch(extractionMethod) = "type-error"
  /\ pc' = [pc EXCEPT ![r] = "done"]
  /\ failed' = [failed EXCEPT ![r] = TRUE]
  /\ UNCHANGED <<extractionMethod, authEnabled, site, page, extractors, dialect,
                 detected, raw, mapped, faculty, dataset>>

\* if (faculty.length > 0) await Actor.pushData(faculty); else a warning
pushData(r) ==
  /\ pc[r] = "extracted"
  /\ dataset' = IF Len(faculty[r]) > 0
                  THEN Append(dataset, [request |-> r, items |-> faculty[r]])
                  ELSE dataset
  /\ pc' = [pc EXCEPT ![r] = "done"]
  /\ UNCHANGED <<extractionMethod, authEnabled, site, page, extractors, dialect,
                 detected, raw, mapped, faculty, failed>>

\* the handler is suspended at an await of the try block
awaiting(r) ==
  \/ pc[r] \in {"start", "loaded", "university", "department"}
  \/ pc[r] = "initialized" /\ authEnabled
  \/ atExtraction(r) /\ dispatch(extractionMethod) \in {"detect", "named"}
  \/ pc[r] = "extracted" /\ Len(faculty[r]) > 0

\* the awaited call rejects (the page closed, a timeout, a failed query, a
\* failed push): catch (error) logs it and the handler returns
catchError(r) ==
  /\ awaiting(r)
  /\ pc' = [pc EXCEPT ![r] = "done"]
  /\ failed' = [failed EXCEPT ![r] = TRUE]
  /\ UNCHANGED <<extractionMethod, authEnabled, site, page, extractors, dialect,
                 detected, raw, mapped, faculty, dataset>>

(***************************************************************************)
(* The pages and options explored                                          *)
(***************************************************************************)
\* the longest list of .views-row rows, of inventory links, of cells of a
\* table row, and the most requests of a crawl, that are explored
MaxRows == 2

MaxLinks == 2

MaxCells == 3

MaxRequests == 2

\* every sequence over S of length at most n
SeqsUpTo(S, n) == UNION {[1..k -> S] : k \in 0..n}

Anchor(text, href) == [text |-> text, href |-> href, title |-> <<>>, a |-> TRUE]

TextElement(text) == [text |-> text, href |-> <<>>, title |-> <<>>, a |-> FALSE]

MailtoAnchor(address) == Anchor(address, sMailto \o address)

nameJohnDoe == <<"J","o","h","n"," ","D","o","e">>
nameDrJohnDoe == <<"D","r","."," ","J","o","h","n"," ","D","o","e">>
nameJohnDoeSpaced == <<"J","o","h","n"," "," ","D","o","e">>
nameJohnDoeUpper == <<"J","O","H","N","\t","D","O","E">>
nameJDoe == <<"J"," ","D","o","e">>
nameJohnQDoe == <<"J","o","h","n"," ","Q"," ","D","o","e">>
nameJo == <<"J","o">>
nameJon == <<"J","o","n">>
nameEmpty == <<>>
nameAlBo == <<"A","l"," ","B","o">>
nameProfJo == <<"P","r","o","f","."," ","J","o">>
nameJohnDoeIII == <<"J","o","h","n"," ","D","o","e",","," ","I","I","I">>
nameDr == <<"D","r",".">>
nameDoeJohn == <<"D","o","e"," ","J","o","h","n">>

NameTexts ==
  {nameJohnDoe, nameDrJohnDoe, nameJohnDoeSpaced, nameJohnDoeUpper, nameJDoe, nameJohnQDoe, nameJo, nameJon, nameEmpty, nameAlBo, nameProfJo, nameJohnDoeIII, nameDr}

addrFirstLast == <<"j","o","h","n",".","d","o","e","@","s","c","h","o","o","l",".","e","d","u">>
addrFirstLastUpper == <<"J","o","h","n",".","D","o","e","@","S","c","h","o","o","l",".","E","D","U">>
addrFirstInitial == <<"j","o","h","n",".","d","@","s","c","h","o","o","l",".","e","d","u">>
addrInitialLast == <<"j",".","d","o","e","@","s","c","h","o","o","l",".","e","d","u">>
addrJdoe == <<"j","d","o","e","@","s","c","h","o","o","l",".","e","d","u">>
addrBoth == <<"j","o","h","n","d","o","e","@","s","c","h","o","o","l",".","e","d","u">>
addrFirst == <<"j","o","h","n","@","s","c","h","o","o","l",".","e","d","u">>
addrGeneric == <<"m","u","s","i","c","@","s","c","h","o","o","l",".","e","d","u">>
addrNone == <<>>
addrShort == <<"a","@","b">>
addrNoAt == <<"j","o","h","n",".","d","o","e">>
addrAlBo == <<"a","l",".","b","o","@","x">>

Addresses ==
  {addrFirstLast, addrFirstLastUpper, addrFirstInitial, addrInitialLast, addrJdoe, addrBoth, addrFirst, addrGeneric, addrNone, addrShort, addrNoAt, addrAlBo}

sAssociateProfessor == <<"A","s","s","o","c","i","a","t","e"," ","P","r","o","f","e","s","s","o","r">>
sPhone == <<"P","h","o","n","e",":"," ","5","5","5","-","0","1","0","0">>
sSchoolHost == <<"m","u","s","i","c",".","s","c","h","o","o","l",".","e","d","u">>
sFacultyPath == <<"/","f","a","c","u","l","t","y","-","l","i","s","t">>

\* a document with nothing on it
EmptyDoc ==
  [url |-> [hostname |-> sSchoolHost, path |-> sFacultyPath],
   docTitle |-> <<"F","a","c","u","l","t","y"," ","|"," ","S","t","a","t","e"," ","U","n","i","v","e","r","s","i","t","y"," ","|"," ","H","o","m","e">>,
   uniTexts |-> <<<<"F","a","c","u","l","t","y"," ","|"," ","S","t","a","t","e"," ","U","n","i","v","e","r","s","i","t","y"," ","|"," ","H","o","m","e">>>>,
   deptTexts |-> <<<<"S","c","h","o","o","l"," ","o","f"," ","M","u","s","i","c"," ","F","a","c","u","l","t","y">>>>,
   viewsRows |-> <<>>, cards |-> <<>>, rows |-> <<>>, loose |-> <<>>,
   loginForm |-> FALSE]

\* a .views-row: a name anchor without href, a title field, a mailto link
ViewsRow(nameText, address) ==
  [name   |-> IF nameText = <<>> THEN NoElement ELSE <<Anchor(nameText, <<>>)>>,
   title  |-> <<TextElement(sAssociateProfessor)>>,
   mailto |-> IF address = <<>> THEN NoElement ELSE <<MailtoAnchor(address)>>,
   phone  |-> <<TextElement(sPhone)>>]

\* the page-wide profile links
LinkJohnDoe    == Anchor(<<"J","o","h","n"," ","D","o","e">>, <<"/","p","e","o","p","l","e","/","j","o","h","n","-","d","o","e">>)
LinkPadded     == Anchor(<<"D","r","."," ","J","o","h","n"," ","D","o","e",","," ","P","h","D">>, <<"/","s","t","a","f","f","/","s","2">>)
LinkUrlOnly    == Anchor(<<"V","i","e","w"," ","p","a","g","e">>, <<"/","p","e","o","p","l","e","/","d","o","e",".","j","o","h","n">>)
LinkUrlSwapped == Anchor(<<"M","o","r","e"," ","i","n","f","o">>, <<"/","f","a","c","u","l","t","y","/","x","-","d","o","e","-","j","o","h","n","-","x">>)
LinkOther      == Anchor(<<"J","a","n","e"," ","R","o","e">>, <<"/","p","e","o","p","l","e","/","j","a","n","e">>)
LinkTruncated  == Anchor(<<"J","o","h","n">>, <<"/","b","i","o","/","b","6">>)
LinkShortText  == Anchor(<<"B","i","o">>, <<"/","b","i","o","/","j","o","h","n","-","d","o","e">>)

PageLinks ==
  {LinkJohnDoe, LinkPadded, LinkUrlOnly, LinkUrlSwapped, LinkOther,
   LinkTruncated, LinkShortText}

\* a card: a heading with the name, a people link, a role line, a mailto
\* link and a phone element
sAnnLee == <<"A","n","n"," ","L","e","e">>

Card(kind, phone) ==
  [kind     |-> kind,
   names    |-> << <<TextElement(sAnnLee)>>, NoElement,
                   <<Anchor(sAnnLee, <<"/","p","e","o","p","l","e","/","a","n","n","-","l","e","e">>)>>, NoElement >>,
   titles   |-> << <<"R","o","o","m"," ","1","2">>, <<"P","r","o","f","e","s","s","o","r"," ","o","f"," ","V","o","i","c","e">> >>,
   mailto   |-> <<MailtoAnchor(<<"a","n","n",".","l","e","e","@","i","l","l","i","n","o","i","s",".","e","d","u">>)>>,
   phone    |-> phone,
   fallback |-> <<Anchor(sAnnLee, <<"/","p","e","o","p","l","e","/","a","n","n","-","l","e","e">>)>>]

\* a phone element with text; a tel: link without text; a span without text
CardPhones ==
  { <<TextElement(sPhone)>>, <<Anchor(<<>>, <<"t","e","l",":","5","5","5","-","0","1","0","1">>)>>, <<TextElement(<<" ">>)>> }

Cell(sel, text, link) == [sel |-> sel, text |-> text, link |-> link, nameClass |-> FALSE]

sJonRoe == <<"J","o","n"," ","R","o","e">>
sJonAddress == <<"j","o","n",".","r","o","e","@","u","n","f",".","e","d","u">>
sLecturer == <<"L","e","c","t","u","r","e","r">>

\* the first cell of a table row: blank, a name, a linked name
FirstCells ==
  { Cell("td", <<" ", " ">>, NoElement),
    Cell("td", sJonRoe, NoElement),
    Cell("td", sJonRoe, <<Anchor(sJonRoe, <<"/","p","e","o","p","l","e","/","j","o","n","-","r","o","e">>)>>) }

\* the mailto link of a table row: none, one without address, one with
RowMails == { NoElement, <<MailtoAnchor(<<>>)>>, <<MailtoAnchor(sJonAddress)>> }

\* a table row of n td cells: the name cell, a role cell holding the mailto
\* link, a phone cell, further cells; with fewer than 2 td cells the mailto
\* link stands in a th cell
TableRow(kind, n, first, mail) ==
  [kind  |-> kind,
   cells |-> [k \in 1..n |->
                IF k = 1 THEN first
                ELSE IF k = 2 THEN Cell("td", sLecturer, mail)
                ELSE IF k = 3 THEN Cell("td", sPhone, NoElement)
                ELSE Cell("td", <<"x">>, NoElement)]
             \o (IF n < 2 /\ mail # NoElement
                   THEN <<Cell("th", <<>>, mail)>> ELSE <<>>)]

TableRows ==
  {TableRow(kind, n, first, mail) :
     kind \in {"table-tr", "table-row"}, n \in 0..MaxCells,
     first \in FirstCells, mail \in RowMails}

JonRow == TableRow("table-tr", 3, Cell("td", sJonRoe, NoElement), <<MailtoAnchor(sJonAddress)>>)

PhpLink == Anchor(<<"C","u","r","r","i","c","u","l","u","m"," ","v","i","t","a","e">>, <<"/","f","i","l","e","s","/","c","v",".","p","h","p">>)

\* the page of the end-to-end scenario
ScenarioDoc ==
  [EmptyDoc EXCEPT !.viewsRows = <<ViewsRow(nameDrJohnDoe, addrJdoe)>>,
                   !.loose = <<LinkJohnDoe>>]

\* pages over the presence facts the detector reads
DetectDocs ==
  {[EmptyDoc EXCEPT !.viewsRows = v, !.cards = c, !.rows = w, !.loose = l] :
     v \in {<<>>, <<ViewsRow(nameJohnDoe, addrJdoe)>>},
     c \in {<<>>} \cup {<<Card(kind, <<TextElement(sPhone)>>)>> : kind \in CardKinds},
     w \in {<<>>, <<JonRow>>, <<[JonRow EXCEPT !.kind = "table-row"]>>},
     l \in {<<>>, <<PhpLink>>}}

\* one .views-row, over the names and the addresses
ScoreDocs ==
  {[EmptyDoc EXCEPT !.viewsRows = <<ViewsRow(n, e)>>, !.loose = <<LinkJohnDoe>>] :
     n \in NameTexts, e \in Addresses}

\* lists of .views-row rows
ListRows == {ViewsRow(n, addrJdoe) : n \in {nameJo, nameJon, nameDr, nameJohnDoe}}

ListDocs == {[EmptyDoc EXCEPT !.viewsRows = rows] : rows \in SeqsUpTo(ListRows, MaxRows)}

\* one .views-row without a link of its own, over the lists of page links
LinkDocs ==
  {[EmptyDoc EXCEPT !.viewsRows = <<ViewsRow(n, addrGeneric)>>, !.loose = links] :
     n \in {nameJohnDoe, nameDoeJohn}, links \in SeqsUpTo(PageLinks, MaxLinks)}

\* tables of one row, and of two
TableDocs ==
  {[EmptyDoc EXCEPT !.rows = <<row>>] : row \in TableRows}
    \cup {[EmptyDoc EXCEPT !.rows = <<row, JonRow>>] : row \in TableRows}

\* cards over the phone elements
CardDocs ==
  {[EmptyDoc EXCEPT !.cards = <<Card(kind, phone)>>] :
     kind \in CardKinds, phone \in CardPhones}

\* a page with a login form and the listing the login leads to
LoginDoc ==
  [EmptyDoc EXCEPT !.url = [hostname |-> <<"m","u","s","i","c",".","i","l","l","i","n","o","i","s",".","e","d","u">>, path |-> <<"/","l","o","g","i","n">>],
                   !.docTitle = <<"S","i","g","n"," ","i","n">>,
                   !.uniTexts = <<<<"S","i","g","n"," ","i","n">>>>,
                   !.deptTexts = <<>>,
                   !.loginForm = TRUE]

MembersDoc ==
  [EmptyDoc EXCEPT !.url = [hostname |-> <<"m","u","s","i","c",".","i","l","l","i","n","o","i","s",".","e","d","u">>, path |-> <<"/","m","e","m","b","e","r","s">>],
                   !.docTitle = <<"D","i","r","e","c","t","o","r","y"," ","|"," ","U","n","i","v","e","r","s","i","t","y"," ","o","f"," ","I","l","l","i","n","o","i","s">>,
                   !.uniTexts = <<<<"D","i","r","e","c","t","o","r","y"," ","|"," ","U","n","i","v","e","r","s","i","t","y"," ","o","f"," ","I","l","l","i","n","o","i","s">>>>,
                   !.deptTexts = <<<<"C","o","l","l","e","g","e"," ","o","f"," ","F","i","n","e"," ","A","r","t","s">>>>,
                   !.cards = <<Card("person-card", <<TextElement(sPhone)>>)>>]

UnfDoc ==
  [EmptyDoc EXCEPT !.url = [hostname |-> <<"w","w","w",".","u","n","f",".","e","d","u">>, path |-> sFacultyPath],
                   !.rows = <<JonRow>>]

\* a site: the document a request loads and the one its login leads to
Site(doc, afterLogin) == [doc |-> doc, afterLogin |-> afterLogin]

CrawlSites == <<Site(ScenarioDoc, ScenarioDoc), Site(LoginDoc, MembersDoc), Site(UnfDoc, UnfDoc)>>

\* the start URLs of a crawl: MaxRequests sites of the catalogue, repeats
\* allowed; the handlers are alike, so one order of each choice is enough
StartUrls ==
  {[i \in 1..MaxRequests |-> CrawlSites[f[i]]] :
     f \in {g \in [1..MaxRequests -> 1..Len(CrawlSites)] :
              \A i \in 1..(MaxRequests - 1) : g[i] <= g[i + 1]}}

\* values of the extractionMethod option: the five documented ones, three
\* that name nothing, and names that Object.prototype defines
Methods ==
  {"auto", "kansas", "illinois", "utah", "tabular", "", "Kansas", "bogus",
   "constructor", "valueOf", "toString", "__proto__"}

\* the options of a crawl: the method and whether authentication is enabled
CrawlOptions ==
  {<<"auto", FALSE>>, <<"auto", TRUE>>, <<"__proto__", FALSE>>}

Run(sites, method, auth) == [sites |-> sites, method |-> method, auth |-> auth]

\* the inputs explored: one page under every method; one page pushed
\* through detection; crawls of several sites
Runs ==
  {Run(<<Site(doc, doc)>>, method, FALSE) :
     doc \in DetectDocs \cup CardDocs, method \in Methods}
  \cup {Run(<<Site(doc, doc)>>, "auto", FALSE) :
     doc \in ScoreDocs \cup ListDocs \cup LinkDocs}
  \cup {Run(<<Site(doc, doc)>>, method, FALSE) :
     doc \in TableDocs, method \in {"auto", "tabular"}}
  \cup {Run(<<CrawlSites[k]>>, method, auth) :
     k \in 1..Len(CrawlSites), method \in Methods, auth \in BOOLEAN}
  \cup {Run(sites, opt[1], opt[2]) : sites \in StartUrls, opt \in CrawlOptions}

Init ==
  \E run \in Runs :
    /\ extractionMethod = run.method
    /\ authEnabled = run.auth
    /\ site = run.sites
    /\ page = [r \in DOMAIN run.sites |-> run.sites[r].doc]
    /\ pc = [r \in DOMAIN run.sites |-> "start"]
    /\ extractors = [r \in DOMAIN run.sites |-> newExtractor]
    /\ dialect = [r \in DOMAIN run.sites |-> "none"]
    /\ detected = [r \in DOMAIN run.sites |-> FALSE]
    /\ raw = [r \in DOMAIN run.sites |-> <<>>]
    /\ mapped = [r \in DOMAIN run.sites |-> <<>>]
    /\ faculty = [r \in DOMAIN run.sites |-> <<>>]
    /\ failed = [r \in DOMAIN run.sites |-> FALSE]
    /\ dataset = <<>>

\* the steps of the requestHandler sessions, interleaved
Next ==
  \/ \E r \in Requests : waitForLoadState(r)
  \/ \E r \in Requests : initUniversityName(r)
  \/ \E r \in Requests : initDepartmentName(r)
  \/ \E r \in Requests : initProfileLinks(r)
  \/ \E r \in Requests : handleAuthentication(r)
  \/ \E r \in Requests : detectAndExtract(r)
  \/ \E r \in Requests : extractNamed(r)
  \/ \E r \in Requests : callInherited(r)
  \/ \E r \in Requests : callNonFunction(r)
  \/ \E r \in Requests : pushData(r)
  \/ \E r \in Requests : catchError(r)

Spec == Init /\ [][Next]_vars

(***************************************************************************)
(* Properties                                                              *)
(***************************************************************************)
\* request r's handler has run a dialect extractor to its end
Extracted(r) == pc[r] \in {"extracted", "done"} /\ dialect[r] # "none" /\ raw[r] # <<>>

\* the presence facts of a document, read from its elements
KansasRowPresent(doc) == Len(doc.viewsRows) > 0

IllinoisCardPresent(doc) ==
  \E k \in 1..Len(doc.cards) :
     doc.cards[k].kind \in {"div-person", "person-card", "faculty-card"}

UtahPatternPresent(doc) ==
  \/ \E k \in 1..Len(doc.rows) : doc.rows[k].kind = "table-tr"
  \/ \E k \in 1..Len(allAnchors(doc)) : includes(allAnchors(doc)[k].href, <<".","p","h","p">>)

PresenceFacts(doc) ==
  <<KansasRowPresent(doc), IllinoisCardPresent(doc), UtahPatternPresent(doc)>>

\* C1: in auto mode the dialect the detector selects is Kansas when a Kansas
\* row is present, otherwise Illinois when a card the detector looks for is
\* present, otherwise Utah when a .php link or a table row is present,
\* otherwise Tabular; equal presence facts give equal dialects.
C1_DetectorPriority ==
  \A r \in Requests :
    (extractionMethod = "auto" /\ dialect[r] # "none") =>
      /\ detected[r]
      /\ KansasRowPresent(page[r]) => dialect[r] = "kansas"
      /\ (~KansasRowPresent(page[r]) /\ IllinoisCardPresent(page[r]))
           => dialect[r] = "illinois"
      /\ (~KansasRowPresent(page[r]) /\ ~IllinoisCardPresent(page[r])
            /\ UtahPatternPresent(page[r])) => dialect[r] = "utah"
      /\ (~KansasRowPresent(page[r]) /\ ~IllinoisCardPresent(page[r])
            /\ ~UtahPatternPresent(page[r])) => dialect[r] = "tabular"
      /\ \A q \in Requests :
           (dialect[q] # "none" /\ PresenceFacts(page[q]) = PresenceFacts(page[r]))
             => dialect[q] = dialect[r]

\* C1 witness: auto mode, a page with a Kansas row and an Illinois card,
\* and Kansas selected
C1_Witness ==
  \E r \in Requests :
    /\ extractionMethod = "auto"
    /\ KansasRowPresent(page[r]) /\ IllinoisCardPresent(page[r])
    /\ dialect[r] = "kansas"

\* C2 (as claimed): once a handler is past the extraction without an error,
\* a method among the four has run exactly that extractor without detection,
\* and every other method value has run detection and the detected extractor.
C2_DispatchAsClaimed ==
  \A r \in Requests :
    (pc[r] = "extracted" \/ (pc[r] = "done" /\ ~failed[r])) =>
      IF extractionMethod \in {"kansas", "illinois", "utah", "tabular"}
        THEN dialect[r] = extractionMethod /\ ~detected[r]
        ELSE detected[r] /\ dialect[r] \in {"kansas", "illinois", "utah", "tabular"}

\* the end-to-end scenario has been extracted by the Kansas extractor
ScenarioExtracted(r) ==
  /\ page[r] = ScenarioDoc
  /\ dialect[r] = "kansas"
  /\ pc[r] \in {"extracted", "done"}

ScenarioRecord(r, confidence, source) ==
  /\ Len(faculty[r]) = 1
  /\ faculty[r][1].name = nameJohnDoe
  /\ faculty[r][1].profileLink = <<"/","p","e","o","p","l","e","/","j","o","h","n","-","d","o","e">>
  /\ faculty[r][1].emailConfidence = confidence
  /\ faculty[r][1].emailSource = source
  /\ faculty[r][1].extractionMethod = "kansas"

\* C3 (as claimed): the scenario page yields one record with name John Doe,
\* the page-wide link, confidence 0.85, source name-matched, method kansas.
C3_ScenarioAsClaimed ==
  \A r \in Requests : ScenarioExtracted(r) => ScenarioRecord(r, 85, "name-matched")

\* C3 (amended): the scenario page yields one record with name John Doe,
\* the page-wide link, confidence 0.5, source generic, method kansas.
C3_Scenario ==
  \A r \in Requests : ScenarioExtracted(r) => ScenarioRecord(r, 50, "generic")

\* C3 witness: the scenario page has been extracted
C3_Witness == \E r \in Requests : ScenarioExtracted(r) /\ Len(faculty[r]) = 1

\* the records of the requests' faculty lists
FacultyRecords == UNION {{faculty[r][k] : k \in 1..Len(faculty[r])} : r \in Requests}

\* the records rawFaculty.map built, kept by the filter or not
MappedRecords == UNION {{mapped[r][k] : k \in 1..Len(mapped[r])} : r \in Requests}

\* the records pushed to the dataset
PushedRecords ==
  UNION {{dataset[b].items[k] : k \in 1..Len(dataset[b].items)} : b \in 1..Len(dataset)}

\* C4: every record the record processor produces has emailSource
\* name-matched exactly when its emailConfidence is above 0.5, and generic
\* otherwise.
C4_EmailSource ==
  \A rec \in FacultyRecords \cup PushedRecords :
    /\ rec.emailSource \in {"name-matched", "generic"}
    /\ rec.emailSource = "name-matched" <=> rec.emailConfidence > 50

\* C4 witness: a record scored exactly 0.5 (the last name only) is generic
C4_Witness ==
  \E rec \in FacultyRecords : rec.emailConfidence = 50 /\ rec.emailSource = "generic"

\* the positions from i on, ascending, of the names longer than 2
RECURSIVE KeptPositions(_, _)
KeptPositions(names, i) ==
  IF i > Len(names) THEN <<>>
  ELSE (IF Len(names[i]) > 2 THEN <<i>> ELSE <<>>) \o KeptPositions(names, i + 1)

CleanedNames(r) == [k \in 1..Len(raw[r]) |-> cleanName(raw[r][k].name)]

\* C5: the processor's output holds one record per candidate whose cleaned
\* name has more than 2 characters, in the order of the candidates, and
\* nothing else; every record's name is longer than 2.
C5_OrderPreservingFilter ==
  \A r \in Requests :
    LET kept == KeptPositions(CleanedNames(r), 1)
    IN  /\ Len(mapped[r]) = Len(raw[r])
        /\ Len(faculty[r]) = Len(kept)
        /\ \A j \in 1..Len(kept) :
             /\ faculty[r][j] = mapped[r][kept[j]]
             /\ faculty[r][j].name = CleanedNames(r)[kept[j]]
        /\ \A j \in 1..Len(faculty[r]) : Len(faculty[r][j].name) > 2

\* C5 witness: of two candidates the first, whose cleaned name has 2
\* characters or fewer, is dropped and the second is kept
C5_Witness ==
  \E r \in Requests :
    /\ Len(raw[r]) = 2
    /\ Len(CleanedNames(r)[1]) <= 2
    /\ Len(faculty[r]) = 1
    /\ faculty[r][1].name = CleanedNames(r)[2]

\* the words of a text: its maximal runs of characters that are not blank
RECURSIVE WordsOf(_)
WordsOf(s) ==
  IF s = <<>> THEN <<>>
  ELSE IF Head(s) \in Whitespace THEN WordsOf(Tail(s))
  ELSE LET rest == WordsOf(Tail(s))
       IN  IF Len(s) > 1 /\ s[2] \notin Whitespace
             THEN <<(<<Head(s)>> \o Head(rest))>> \o Tail(rest)
             ELSE <<(<<Head(s)>>)>> \o rest

LongerThanOne(word) == Len(word) > 1

UsableTokens(name) == SelectSeq(WordsOf(toLowerCase(name)), LongerThanOne)

\* the part of an address before its first @
RECURSIVE LocalPart(_)
LocalPart(email) ==
  IF email = <<>> \/ Head(email) = "@" THEN <<>>
  ELSE <<Head(email)>> \o LocalPart(Tail(email))

\* the address is first.last@..., for the first and last usable tokens
FirstDotLast(name, email) ==
  LET tokens == UsableTokens(name)
  IN  /\ Len(tokens) >= 2
      /\ toLowerCase(LocalPart(email)) = tokens[1] \o <<".">> \o tokens[Len(tokens)]

\* C6: a name with at least 2 usable tokens and an address whose local part
\* is first token, dot, last token is scored exactly 0.95.
C6_FirstDotLast ==
  \A rec \in MappedRecords :
    FirstDotLast(rec.name, rec.email) => rec.emailConfidence = 95

\* C6 witness: a record of the form first.last, scored 0.95
C6_Witness ==
  \E rec \in MappedRecords :
    FirstDotLast(rec.name, rec.email) /\ rec.emailConfidence = 95

\* C7: an empty name, an empty address or one shorter than 5 characters is
\* scored exactly 0.1, whatever the tokens of the name.
C7_SoftFail ==
  \A rec \in MappedRecords :
    (rec.name = <<>> \/ rec.email = <<>> \/ Len(rec.email) < 5)
      => rec.emailConfidence = 10

\* C7 witness: a name of fewer than 2 usable tokens with a short address is
\* scored 0.1
C7_Witness ==
  \E rec \in MappedRecords :
    /\ rec.name # <<>>
    /\ Len(UsableTokens(rec.name)) < 2
    /\ rec.email # <<>> /\ Len(rec.email) < 5
    /\ rec.emailConfidence = 10

\* either text contains the other, case ignored
TextMatches(name, link) ==
  \/ includes(toLowerCase(link.text), toLowerCase(name))
  \/ includes(toLowerCase(name), toLowerCase(link.text))

\* the href contains both the first and the last token of the name, or
\* first-last, or last-first
UrlMatches(name, link) ==
  LET tokens == WordsOf(toLowerCase(name))
      first  == tokens[1]
      last   == tokens[Len(tokens)]
      href   == toLowerCase(link.href)
  IN  \/ includes(href, first) /\ includes(href, last)
      \/ includes(href, first \o <<"-">> \o last)
      \/ includes(href, last \o <<"-">> \o first)

Least(S) == CHOOSE i \in S : \A j \in S : i <= j

ExpectedLink(name, links) ==
  LET byText == {i \in 1..Len(links) : TextMatches(name, links[i])}
      byUrl  == {i \in 1..Len(links) : UrlMatches(name, links[i])}
  IN  IF byText # {} THEN links[Least(byText)].href
      ELSE IF byUrl # {} THEN links[Least(byUrl)].href
      ELSE <<>>

\* C8: for a candidate without a link of its own, the link the resolver
\* returns is the href of the first text-matching entry of the page's
\* inventory if there is one, otherwise of the first URL-matching entry,
\* otherwise empty; it is empty or the href of an entry.
C8_ProfileLink ==
  \A r \in Requests :
    \A k \in 1..Len(mapped[r]) :
      (raw[r][k].profileLink = <<>> /\ mapped[r][k].name # <<>>) =>
        LET links == extractors[r].profileLinks
            got   == mapped[r][k].profileLink
        IN  /\ got = ExpectedLink(mapped[r][k].name, links)
            /\ got = <<>> \/ \E i \in 1..Len(links) : links[i].href = got

\* C8 witness: a text match later in the inventory wins over a URL match
\* that stands before it
C8_Witness ==
  \E r \in Requests :
    \E k \in 1..Len(mapped[r]) :
      LET links == extractors[r].profileLinks
          name  == mapped[r][k].name
      IN  /\ raw[r][k].profileLink = <<>> /\ name # <<>>
          /\ Len(links) = 2
          /\ UrlMatches(name, links[1]) /\ ~TextMatches(name, links[1])
          /\ TextMatches(name, links[2])
          /\ links[1].href # links[2].href
          /\ mapped[r][k].profileLink = links[2].href

\* the rows the Tabular dialect looks at, and what it reads of a row
TabularRowsOf(doc) == SelectSeq(doc.rows, LAMBDA row : row.kind \in {"table-tr", "table-row"})

CellsOf(row) == SelectSeq(row.cells, LAMBDA cell : cell.sel \in {"td", "cell"})

MailtoLinksOf(row) ==
  SelectSeq(rowAnchors(row), LAMBDA anchor : startsWithAt(anchor.href, sMailto, 1))

\* the address of the row's first mailto link
MailtoAddressOf(row) == From(MailtoLinksOf(row)[1].href, Len(sMailto) + 1)

\* the text the name is read from: the first cell's link, else the cell
NameTextOf(row) ==
  IF CellsOf(row)[1].link # NoElement THEN CellsOf(row)[1].link[1].text
  ELSE CellsOf(row)[1].text

TabularRan(r) == dialect[r] = "tabular" /\ pc[r] \in {"extracted", "done"}

\* the candidates hold one of the row: its role cell and its address
YieldsWithEmail(r, row) ==
  \E j \in 1..Len(raw[r]) :
    /\ raw[r][j].email # <<>>
    /\ raw[r][j].email = MailtoAddressOf(row)
    /\ raw[r][j].title = trim(CellsOf(row)[2].text)

\* C9 (as claimed): rows with fewer than 2 cells yield no candidate, and
\* every row with 2 or more cells and a mailto link yields a candidate whose
\* email is not empty.
C9_TabularAsClaimed ==
  \A r \in Requests :
    TabularRan(r) =>
      LET rows      == TabularRowsOf(page[r])
          wide      == {k \in 1..Len(rows) : Len(CellsOf(rows[k])) >= 2}
          withEmail == {k \in wide : MailtoLinksOf(rows[k]) # <<>>}
      IN  /\ Len(raw[r]) <= Cardinality(wide)
          /\ Cardinality(withEmail) <= Len(raw[r])
          /\ \A k \in withEmail : YieldsWithEmail(r, rows[k])

\* C9 (amended): rows with fewer than 2 cells yield no candidate, and every
\* row with 2 or more cells, a name text that is not blank and a mailto link
\* whose address is not empty yields a candidate whose email is not empty.
C9_Tabular ==
  \A r \in Requests :
    TabularRan(r) =>
      LET rows      == TabularRowsOf(page[r])
          wide      == {k \in 1..Len(rows) : Len(CellsOf(rows[k])) >= 2}
          withEmail == {k \in wide :
                          /\ trim(NameTextOf(rows[k])) # <<>>
                          /\ MailtoLinksOf(rows[k]) # <<>>
                          /\ MailtoAddressOf(rows[k]) # <<>>}
      IN  /\ Len(raw[r]) <= Cardinality(wide)
          /\ Cardinality(withEmail) <= Len(raw[r])
          /\ \A k \in withEmail : YieldsWithEmail(r, rows[k])

\* C9 witness: a table of a single row with 2 or more cells and a mailto
\* link, and its one candidate, whose email is not empty
C9_Witness ==
  \E r \in Requests :
    /\ TabularRan(r)
    /\ Len(TabularRowsOf(page[r])) = 1
    /\ Len(CellsOf(TabularRowsOf(page[r])[1])) >= 2
    /\ MailtoLinksOf(TabularRowsOf(page[r])[1]) # <<>>
    /\ Len(raw[r]) = 1
    /\ raw[r][1].email # <<>>

\* what request r's own page gives: its university, its department, its
\* inventory of profile links
OwnUniversity(r) == pageUniversityName(site[r].doc.url, site[r].doc)

OwnDepartment(r) == pageDepartmentName(site[r].doc)

OwnLinks(r) ==
  {extractAllProfileLinks(site[r].doc)[k].href :
     k \in 1..Len(extractAllProfileLinks(site[r].doc))}
    \cup {raw[r][k].profileLink : k \in 1..Len(raw[r])} \cup {<<>>}

StampedBy(rec, r) ==
  /\ rec.university = OwnUniversity(r)
  /\ rec.department = OwnDepartment(r)
  /\ rec.sourceUrl = page[r].url
  /\ rec.profileLink \in OwnLinks(r)

BatchesOf(r) == {b \in 1..Len(dataset) : dataset[b].request = r}

\* the guard of request r's next step: what its handler waits for
CanProceed(r) ==
  \/ pc[r] \in {"start", "loaded", "university", "department", "extracted"}
  \/ pc[r] = "initialized" /\ authEnabled
  \/ atExtraction(r)

\* the position of a handler, in the order the handler goes through them
Position(p) ==
  CASE p = "start" -> 0
    [] p = "loaded" -> 1
    [] p = "university" -> 2
    [] p = "department" -> 3
    [] p = "initialized" -> 4
    [] p = "authenticated" -> 5
    [] p = "extracted" -> 6
    [] p = "done" -> 7

\* what belongs to request r's session
Session(r) ==
  <<page[r], pc[r], extractors[r], dialect[r], detected[r], raw[r],
    mapped[r], faculty[r], failed[r]>>

\* a failed session has returned and emitted nothing; what a session built
\* or emitted is stamped with its own university, department, inventory and
\* URL; a session that ended without failure has emitted exactly its records
Contained(r) ==
  /\ failed[r] => (pc[r] = "done" /\ BatchesOf(r) = {})
  /\ \A k \in 1..Len(faculty[r]) : StampedBy(faculty[r][k], r)
  /\ \A b \in BatchesOf(r) :
       /\ dataset[b].items = faculty[r]
       /\ \A k \in 1..Len(dataset[b].items) : StampedBy(dataset[b].items[k], r)
  /\ Cardinality(BatchesOf(r)) <= 1
  /\ (pc[r] = "done" /\ ~failed[r] /\ Len(faculty[r]) > 0) => BatchesOf(r) # {}
  /\ pc[r] # "done" => CanProceed(r)

\* a step is a step of one session q: it leaves every other session as it
\* was, moves q forward, and emits, if anything, one batch of q's
StepOfOne ==
  \E q \in Requests :
    /\ \A r \in Requests \ {q} : Session(r)' = Session(r)
    /\ Position(pc'[q]) > Position(pc[q])
    /\ failed[q] => failed'[q]
    /\ \/ dataset' = dataset
       \/ /\ dataset' = Append(dataset, [request |-> q, items |-> faculty[q]])
          /\ ~failed'[q]

\* C10: with the sessions interleaved, a session that failed has returned
\* (the error stays in its handler) and has emitted nothing; every record a
\* session builds or emits is stamped with that session's own university,
\* department, inventory and URL; a session that ended without failure has
\* emitted exactly its records; a session that has not ended is never kept
\* from its next step by another session; and every step moves one session
\* forward and leaves every other session untouched.
C10_Isolation ==
  /\ [](\A r \in Requests : Contained(r))
  /\ [][StepOfOne]_vars

\* C10 witness: one session failed, and another, of another site, ended
\* after it and emitted its records
C10_Witness ==
  \E r, q \in Requests :
    /\ site[r] # site[q]
    /\ failed[r]
    /\ pc[q] = "done" /\ ~failed[q]
    /\ BatchesOf(q) # {} /\ BatchesOf(r) = {}
    /\ extractors[q].universityName # extractors[r].universityName
    /\ extractors[r].universityName # <<>>

\* a card container of the Illinois extractor is on the page: a div whose
\* class contains person, or a .person-card, .faculty-card or .staff-card
ExtractorCardPresent(doc) ==
  \E k \in 1..Len(doc.cards) :
     doc.cards[k].kind \in {"div-person", "person-card", "faculty-card", "staff-card"}

\* C11 (as claimed): in auto mode, on a page without a Kansas row, Illinois
\* is the dialect selected whenever the page holds a card container of the
\* Illinois extractor (.staff-card included).
C11_DetectorAgreesAsClaimed ==
  \A r \in Requests :
    (/\ extractionMethod = "auto"
     /\ dialect[r] # "none"
     /\ ~KansasRowPresent(page[r])
     /\ ExtractorCardPresent(page[r])) => dialect[r] = "illinois"

\* the PageContext the page load queried for candidates gives
ContextOf(doc) ==
  [universityName |-> pageUniversityName(doc.url, doc),
   departmentName |-> pageDepartmentName(doc),
   profileLinks |-> extractAllProfileLinks(doc)]

\* request r's dialect extractor has queried page[r] for candidates
Queried(r) == dialect[r] # "none" /\ pc[r] \in {"extracted", "done"}

\* C12 (as claimed): in every session whose extractor has queried the page,
\* authentication enabled and the login submitted included, the page queried
\* is the page load the PageContext was computed from, and the PageContext
\* held is the one that page gives.
C12_ContextOfQueriedPageAsClaimed ==
  \A r \in Requests :
    Queried(r) =>
      /\ page[r] = site[r].doc
      /\ extractors[r] = ContextOf(page[r])

=============================================================================
